---- MODULE Spec2Model ----
(***************************************************************************)
(* Model of the Keycloak load-testing scripts.                             *)
(*                                                                         *)
(*   load_scenarios.py       LoadTestRunner: the scenario runner           *)
(*   locustfile.py           KeycloakUser: one virtual-user session        *)
(*   performance_monitor.py  PerformanceMonitor: the metrics collector     *)
(*                                                                         *)
(* The runner is single-threaded and keeps no state between calls, so each *)
(* of its methods is one action whose result is computed by an operator    *)
(* that follows the method line by line and records the externally visible *)
(* events (subprocess launches, health requests, sleeps) in order.         *)
(* A session runs its tasks one after the other; each task is one action.  *)
(* The collector is main's thread and the two sampling threads it starts;  *)
(* each thread's step between two reads or writes of shared state is one   *)
(* action. analyze_bottlenecks is a function of the sample table.          *)
(***************************************************************************)
EXTENDS Integers, Sequences, FiniteSets, TLC

VARIABLES
    attrs,      \* runner: names of the instance attributes set on the object
    rcall,      \* runner: the last method call, its inputs and its outcome
    now,        \* session: time.time(), in seconds
    phase,      \* session: "new", "running" or "stopped", per session
    token_expires_at,   \* session: self.token_expires_at
    auth,       \* session: token in the default Authorization header (0: none)
    created_resources,  \* session: self.created_resources
    made,       \* server: resources created so far, per session and type
    issued,     \* server: tokens issued so far, per session
    confirmed,  \* identifiers (and realm names) the server confirmed with a 201
    last,       \* the last session operation: who, what, its requests
    steps,      \* session operations and clock ticks so far
    monitoring_active,  \* monitor: self.monitoring_active
    mpc,        \* monitor: where main is
    timers,     \* monitor: time elapsed since each running timer was started
    sysl,       \* monitor: collect_system_metrics, its position and locals
    metrics_queue,      \* monitor: self.metrics_queue
    proml,      \* monitor: collect_prometheus_metrics, its position and locals
    obs,        \* monitor: what each loop did after stop_monitoring returned
    acall       \* monitor: the last analyze_bottlenecks call and its outcome

runnerVars == <<attrs, rcall>>
sessionVars == <<now, phase, token_expires_at, auth, created_resources, made,
                 issued, confirmed, last, steps>>
monitorVars == <<monitoring_active, mpc, timers, sysl, metrics_queue, proml, obs>>
analysisVars == <<acall>>
vars == <<attrs, rcall, now, phase, token_expires_at, auth, created_resources,
          made, issued, confirmed, last, steps, monitoring_active, mpc, timers,
          sysl, metrics_queue, proml, obs, acall>>

(***************************************************************************)
(* Bounds                                                                  *)
(***************************************************************************)
MaxAttempts == 3    \* largest max_attempts a direct wait_for_keycloak call gets
MaxSteps == 4       \* session operations and clock ticks per run

(***************************************************************************)
(* Helpers                                                                 *)
(***************************************************************************)
RECURSIVE SeqCount(_, _, _)
SeqCount(s, e, i) ==
    IF i > Len(s) THEN 0
    ELSE (IF s[i].e = e THEN 1 ELSE 0) + SeqCount(s, e, i + 1)

CountEvents(s, e) == SeqCount(s, e, 1)

\* An externally visible event; cmd is the argument list of a subprocess
\* launch and empty for the other events.
Ev(e, name, n) == [e |-> e, name |-> name, n |-> n, cmd |-> <<>>]

(***************************************************************************)
(* load_scenarios.py : LoadTestRunner                                      *)
(***************************************************************************)
ScenarioOrder == <<"light_load", "medium_load", "heavy_load", "stress_test">>

ScenarioNames == {ScenarioOrder[i] : i \in 1..Len(ScenarioOrder)}

scenarios ==
    [n \in ScenarioNames |->
        CASE n = "light_load"  -> [users |-> 20,   spawn_rate |-> 2,  run_time |-> "5m"]
          [] n = "medium_load" -> [users |-> 100,  spawn_rate |-> 5,  run_time |-> "10m"]
          [] n = "heavy_load"  -> [users |-> 500,  spawn_rate |-> 10, run_time |-> "15m"]
          [] n = "stress_test" -> [users |-> 2000, spawn_rate |-> 20, run_time |-> "20m"]]

\* __init__ binds results_dir and scenarios on the object; base_dir is a local.
InitAttrs == {"results_dir", "scenarios"}

HasAttr(a) == a \in attrs

DefaultMaxAttempts == 30
HealthSleep == 10
SidecarGrace == 10
CoolDown == 30

\* What subprocess.run can do: fail to launch (an exception), or run the
\* command to an exit status.
SubprocessOutcomes ==
    {[launched |-> FALSE, returncode |-> 0],
     [launched |-> TRUE, returncode |-> 0],
     [launched |-> TRUE, returncode |-> 1]}

\* What requests.get can do: raise (timeout, connection refused), or answer.
HealthResponses ==
    {[exc |-> TRUE, status_code |-> 0],
     [exc |-> FALSE, status_code |-> 200],
     [exc |-> FALSE, status_code |-> 204],
     [exc |-> FALSE, status_code |-> 503]}

Result(raised, ret, events) == [raised |-> raised, ret |-> ret, events |-> events]

\* str() of a non-negative integer: its decimal digits.
DecimalDigits == <<"0", "1", "2", "3", "4", "5", "6", "7", "8", "9">>

RECURSIVE Str(_)
Str(n) ==
    IF n < 10 THEN DecimalDigits[n + 1]
    ELSE Str(n \div 10) \o DecimalDigits[(n % 10) + 1]

\* The locust command of run_scenario; the file names, which depend on
\* base_dir, results_dir and the timestamp, are written symbolically.
Command(scenario_name, scenario_config) ==
    <<"locust",
      "-f", "{base_dir}/locustfile.py",
      "--host", "http://localhost:8080",
      "--users", Str(scenario_config.users),
      "--spawn-rate", Str(scenario_config.spawn_rate),
      "--run-time", scenario_config.run_time,
      "--html", "{results_dir}/{scenario_name}_{timestamp}.html",
      "--headless",
      "--print-stats",
      "--csv", "{results_dir}/{scenario_name}_{timestamp}">>

\* run_scenario: the command list is built before the try block and reads
\* self.base_dir; subprocess.run and the exit-status test are inside it.
RunScenario(scenario_name, scenario_config, outcome) ==
    LET cmd == Command(scenario_name, scenario_config)
    IN  IF ~HasAttr("base_dir")
        THEN Result(TRUE, FALSE, <<>>)
        ELSE IF ~outcome.launched
        THEN Result(FALSE, FALSE,
                    <<[Ev("launch_failed", scenario_name, 0) EXCEPT !.cmd = cmd]>>)
        ELSE Result(FALSE, outcome.returncode = 0,
                    <<[Ev("launch", scenario_name, scenario_config.users)
                          EXCEPT !.cmd = cmd],
                      Ev("exit", scenario_name, outcome.returncode)>>)

\* Variant: the readiness test accepting every 2xx status.
RECURSIVE WaitLoopAny2xx(_, _, _)
WaitLoopAny2xx(i, max_attempts, resp) ==
    IF i > max_attempts
    THEN Result(FALSE, FALSE, <<>>)
    ELSE IF ~resp[i].exc /\ resp[i].status_code \in 200..299
    THEN Result(FALSE, TRUE, <<Ev("health_get", "", i)>>)
    ELSE LET rest == WaitLoopAny2xx(i + 1, max_attempts, resp)
         IN  Result(FALSE, rest.ret,
                    <<Ev("health_get", "", i), Ev("sleep", "", HealthSleep)>>
                        \o rest.events)

\* wait_for_keycloak: the loop body for attempt i (1-based) and on.
RECURSIVE WaitLoop(_, _, _)
WaitLoop(i, max_attempts, resp) ==
    IF i > max_attempts
    THEN Result(FALSE, FALSE, <<>>)
    ELSE IF ~resp[i].exc /\ resp[i].status_code = 200
    THEN Result(FALSE, TRUE, <<Ev("health_get", "", i)>>)
    ELSE LET rest == WaitLoop(i + 1, max_attempts, resp)
         IN  Result(FALSE, rest.ret,
                    <<Ev("health_get", "", i), Ev("sleep", "", HealthSleep)>>
                        \o rest.events)

\* Variant: the loop written as range(1, max_attempts), one attempt short.
WaitForKeycloakShort(max_attempts, resp) == WaitLoop(2, max_attempts, resp)

WaitForKeycloak(max_attempts, resp) == WaitLoop(1, max_attempts, resp)

\* start_monitoring: subprocess.run(cmd, cwd=self.base_dir), unchecked and
\* outside any try, then the grace sleep.
StartMonitoring(outcome) ==
    IF ~HasAttr("base_dir")
    THEN Result(TRUE, FALSE, <<>>)
    ELSE IF ~outcome.launched
    THEN Result(TRUE, FALSE, <<Ev("launch_failed", "docker-compose", 0)>>)
    ELSE Result(FALSE, FALSE,
                <<Ev("launch", "docker-compose", 0),
                  Ev("exit", "docker-compose", outcome.returncode),
                  Ev("sleep", "", SidecarGrace)>>)

\* The for loop of run_all_scenarios from the k-th scenario on; results is
\* the dict built so far.
RECURSIVE ScenarioLoop(_, _, _)
ScenarioLoop(k, outcomes, results) ==
    IF k > Len(ScenarioOrder)
    THEN Result(FALSE, \A n \in DOMAIN results : results[n], <<>>)
    ELSE LET name == ScenarioOrder[k]
             one  == RunScenario(name, scenarios[name], outcomes[name])
             cool == <<Ev("sleep", name, CoolDown)>>
         IN  IF one.raised
             THEN Result(TRUE, FALSE, cool \o one.events)
             ELSE LET rest == ScenarioLoop(k + 1, outcomes,
                                           [n \in DOMAIN results \cup {name} |->
                                               IF n = name THEN one.ret ELSE results[n]])
                  IN  Result(rest.raised, rest.ret, cool \o one.events \o rest.events)

RunAllScenarios(sidecar, resp, outcomes) ==
    LET sm == StartMonitoring(sidecar)
    IN  IF sm.raised
        THEN sm
        ELSE LET wk == WaitForKeycloak(DefaultMaxAttempts, resp)
             IN  IF ~wk.ret
                 THEN Result(FALSE, FALSE, sm.events \o wk.events)
                 ELSE LET lp == ScenarioLoop(1, outcomes, <<>>)
                      IN  Result(lp.raised, lp.ret, sm.events \o wk.events \o lp.events)

\* The health endpoint as run_all_scenarios sees it: `fails` answers of the
\* given kind, then 200 for good.
HealthProfile(fails, kind) ==
    [i \in 1..DefaultMaxAttempts |->
        IF i <= fails THEN kind ELSE [exc |-> FALSE, status_code |-> 200]]

NoInput == [name |-> "", max_attempts |-> 0, resp |-> <<>>, sidecar |-> <<>>,
            outcomes |-> <<>>]

Call(op, input, res) == [op |-> op, input |-> input, res |-> res]

\* One process run constructs one runner and makes one top-level call on it.
Fresh == rcall.op = "none"

CallRunScenario ==
    \E name \in ScenarioNames, outcome \in SubprocessOutcomes :
        /\ Fresh
        /\ rcall' = Call("run_scenario",
                         [NoInput EXCEPT !.name = name, !.outcomes = <<outcome>>],
                         RunScenario(name, scenarios[name], outcome))
        /\ UNCHANGED <<attrs, sessionVars, monitorVars, analysisVars>>

CallWaitForKeycloak ==
    \E max_attempts \in 0..MaxAttempts :
        \E resp \in [1..max_attempts -> HealthResponses] :
            /\ Fresh
            /\ rcall' = Call("wait_for_keycloak",
                             [NoInput EXCEPT !.max_attempts = max_attempts,
                                             !.resp = resp],
                             WaitForKeycloak(max_attempts, resp))
            /\ UNCHANGED <<attrs, sessionVars, monitorVars, analysisVars>>

CallStartMonitoring ==
    \E sidecar \in SubprocessOutcomes :
        /\ Fresh
        /\ rcall' = Call("start_monitoring",
                         [NoInput EXCEPT !.sidecar = <<sidecar>>],
                         StartMonitoring(sidecar))
        /\ UNCHANGED <<attrs, sessionVars, monitorVars, analysisVars>>

CallRunAllScenarios ==
    \E sidecar \in SubprocessOutcomes,
       fails \in (0..MaxAttempts) \cup {DefaultMaxAttempts},
       kind \in HealthResponses \ {[exc |-> FALSE, status_code |-> 200]},
       outcomes \in [ScenarioNames -> SubprocessOutcomes] :
        /\ Fresh
        /\ rcall' = Call("run_all_scenarios",
                         [NoInput EXCEPT !.max_attempts = DefaultMaxAttempts,
                                         !.resp = HealthProfile(fails, kind),
                                         !.sidecar = <<sidecar>>,
                                         !.outcomes = outcomes],
                         RunAllScenarios(sidecar, HealthProfile(fails, kind), outcomes))
        /\ UNCHANGED <<attrs, sessionVars, monitorVars, analysisVars>>

(***************************************************************************)
(* locustfile.py : KeycloakUser                                            *)
(***************************************************************************)
Sessions == {"u1", "u2"}

TrackedTypes == {"users", "clients", "roles", "groups"}

ResourceTypes == TrackedTypes \cup {"realms"}

TokenSlack == 60
DefaultLifetime == 300
TickSeconds == 60

Id(s, kind, n) == [owner |-> s, kind |-> kind, n |-> n]

NoId == Id("", "", 0)

\* self.test_realm_name: "test-realm-" and a fresh uuid4 prefix, one per session.
test_realm_name(s) == Id(s, "realms", 1)

Elems(seq) == {seq[i] : i \in 1..Len(seq)}

Front(seq) == SubSeq(seq, 1, Len(seq) - 1)

\* One HTTP request of a session and the status it was answered with. Every
\* admin URL is built from self.test_realm_name, the `realm` of the request.
Req(s, method, name, id, status_code, keys) ==
    [realm |-> test_realm_name(s), method |-> method, name |-> name, id |-> id,
     status_code |-> status_code, keys |-> keys]

\* Answers of the token endpoint; has_expires_in is whether the JSON body
\* carries "expires_in".
TokenResponses ==
    {[status_code |-> 200, has_expires_in |-> TRUE, expires_in |-> 120],
     [status_code |-> 401, has_expires_in |-> FALSE, expires_in |-> 0]}

\* Answers to a create POST: the status and whether a Location header came.
CreateResponses ==
    {[status_code |-> 201, has_location |-> TRUE],
     [status_code |-> 201, has_location |-> FALSE],
     [status_code |-> 409, has_location |-> FALSE]}

\* Answers to the requests whose answer the session looks at, or whose
\* failure matters to what the session has already done.
GetStatuses == {200, 404}

DeleteStatuses == {204, 404}

\* The answer to a request whose answer the session never looks at.
IgnoredStatuses == {200}

\* JSON bodies a GET of one role or group can come back with (their keys).
Representations ==
    {{"id", "name", "composite"}, {"id", "name", "description", "attributes"}}

\* Bodies of the client-scope listing: each scope with its id and the
\* prefix its name starts with.
ScopeListings(s) ==
    LET scope(n, prefix) == [id |-> Id(s, "client-scopes", n), name_prefix |-> prefix]
    IN  {<<scope(1, "profile")>>,
         <<scope(1, "profile"), scope(2, "test-scope-"), scope(3, "test-scope-")>>}

\* No token request was sent.
NoAnswer == [status_code |-> 0, has_expires_in |-> FALSE, expires_in |-> 0]

\* The token state of a session as a record, so that a step can thread it;
\* answer is what the token endpoint answered in this operation, if asked.
TokenState(s) ==
    [reqs |-> <<>>, expires_at |-> token_expires_at[s], auth |-> auth[s],
     issued |-> issued[s], answer |-> NoAnswer]

\* Variant: the expiry computed without the safety margin.
GetAdminTokenNoSlack(s, tr) ==
    IF tr.status_code = 200
    THEN [reqs |-> <<Req(s, "POST", "auth/get_admin_token", NoId, tr.status_code, {})>>,
          expires_at |-> now + (IF tr.has_expires_in THEN tr.expires_in
                                ELSE DefaultLifetime),
          auth |-> issued[s] + 1,
          issued |-> issued[s] + 1,
          answer |-> tr]
    ELSE [TokenState(s) EXCEPT
            !.reqs = <<Req(s, "POST", "auth/get_admin_token", NoId, tr.status_code, {})>>,
            !.answer = tr]

\* get_admin_token
GetAdminToken(s, tr) ==
    IF tr.status_code = 200
    THEN [reqs |-> <<Req(s, "POST", "auth/get_admin_token", NoId, tr.status_code, {})>>,
          expires_at |-> now + ((IF tr.has_expires_in THEN tr.expires_in
                                 ELSE DefaultLifetime) - TokenSlack),
          auth |-> issued[s] + 1,
          issued |-> issued[s] + 1,
          answer |-> tr]
    ELSE [TokenState(s) EXCEPT
            !.reqs = <<Req(s, "POST", "auth/get_admin_token", NoId, tr.status_code, {})>>,
            !.answer = tr]

\* Variant: the expiry test written with > instead of >=.
ExpiredStrict(s) == now > token_expires_at[s]

\* The test of ensure_valid_token.
Expired(s) == now >= token_expires_at[s]

\* The answers the token endpoint can give to this operation: it is asked
\* only when ensure_valid_token finds the token expired.
TokenAnswers(s) ==
    IF Expired(s) THEN TokenResponses ELSE {CHOOSE tr \in TokenResponses : TRUE}

\* ensure_valid_token
EnsureValidToken(s, tr) ==
    IF Expired(s) THEN GetAdminToken(s, tr) ELSE TokenState(s)

\* Variant: created_resources as one dictionary shared by all sessions.
StoreTrackedShared(s, cr) == [u \in Sessions |-> cr]

\* The session's own dictionary is replaced; the other sessions keep theirs.
StoreTracked(s, cr) == [created_resources EXCEPT ![s] = cr]

\* The end of every session operation: the token state, the tracked lists,
\* the server's counters and the record of the operation.
Finish(s, op, tk, reqs, cr, mk, cf) ==
    /\ token_expires_at' = [token_expires_at EXCEPT ![s] = tk.expires_at]
    /\ auth' = [auth EXCEPT ![s] = tk.auth]
    /\ issued' = [issued EXCEPT ![s] = tk.issued]
    /\ created_resources' = StoreTracked(s, cr)
    /\ made' = [made EXCEPT ![s] = mk]
    /\ confirmed' = [confirmed EXCEPT ![s] = cf]
    /\ last' = [s |-> s, op |-> op, reqs |-> tk.reqs \o reqs,
                before |-> created_resources,
                expires_before |-> token_expires_at[s], auth_before |-> auth[s],
                token_answer |-> tk.answer, now |-> now]
    /\ steps' = steps + 1
    /\ UNCHANGED <<now, runnerVars, monitorVars, analysisVars>>

Running(s) == phase[s] = "running" /\ steps < MaxSteps

NoTracked == [t \in ResourceTypes |-> <<>>]

\* on_start: the attributes are (re)set, the token is fetched without an
\* expiry test, the realm is created.
on_start(s) ==
    \E tr \in TokenResponses, status_code \in {201, 409} :
        /\ phase[s] = "new"
        /\ steps < MaxSteps
        /\ phase' = [phase EXCEPT ![s] = "running"]
        /\ LET tk0 == GetAdminToken(s, tr)
               tk  == IF tr.status_code = 200 THEN tk0
                      ELSE [tk0 EXCEPT !.expires_at = 0]
               ok  == status_code = 201
           IN  Finish(s, "on_start", tk,
                      <<Req(s, "POST", "setup/create_test_realm", test_realm_name(s),
                            status_code, {})>>,
                      [NoTracked EXCEPT !["realms"] =
                          IF ok THEN <<test_realm_name(s)>> ELSE <<>>],
                      made[s],
                      IF ok THEN [confirmed[s] EXCEPT !["realms"] = {test_realm_name(s)}]
                      ELSE confirmed[s])

\* Variant: the cleanup without its membership test.
RealmTrackedAlways(s) == TRUE

\* The test of cleanup_resources: the realm's name is in the session's
\* tracked realms, where create_test_realm puts it on a 201.
RealmTracked(s) == test_realm_name(s) \in Elems(created_resources[s]["realms"])

\* cleanup_resources, called by on_stop
on_stop(s) ==
    \E tr \in TokenAnswers(s), status_code \in DeleteStatuses :
        /\ Running(s)
        /\ phase' = [phase EXCEPT ![s] = "stopped"]
        /\ LET tk == EnsureValidToken(s, tr)
           IN  Finish(s, "on_stop", tk,
                      IF RealmTracked(s)
                      THEN <<Req(s, "DELETE", "cleanup/delete_test_realm",
                                 test_realm_name(s), status_code, {})>>
                      ELSE <<>>,
                      created_resources[s], made[s], confirmed[s])

\* The Location header of the answer to a create: the URL of the new
\* resource on a 201, of some other resource otherwise, as path segments.
Location(s, t, r) ==
    IF ~r.has_location THEN <<>>
    ELSE <<"admin", "realms", test_realm_name(s), t,
           Id(s, t, IF r.status_code = 201 THEN made[s][t] + 1 ELSE 0)>>

\* What the server did with a create POST answered r.
Created(s, t, r) ==
    IF r.status_code = 201
    THEN [made |-> [made[s] EXCEPT ![t] = @ + 1],
          confirmed |-> [confirmed[s] EXCEPT ![t] = @ \cup {Id(s, t, made[s][t] + 1)}]]
    ELSE [made |-> made[s], confirmed |-> confirmed[s]]

\* Variant: no test of the Location header; ''.split('/')[-1] is ''.
TrackFromLocationUnchecked(s, t, r) ==
    LET location == Location(s, t, r)
    IN  IF r.status_code = 201
        THEN [created_resources[s] EXCEPT ![t] =
                 Append(@, IF location /= <<>> THEN location[Len(location)] ELSE NoId)]
        ELSE created_resources[s]

\* The tracked lists after a create answered r, for the types whose
\* identifier is the last segment of the Location header.
TrackFromLocation(s, t, r) ==
    LET location == Location(s, t, r)
    IN  IF r.status_code = 201 /\ location /= <<>>
        THEN [created_resources[s] EXCEPT ![t] = Append(@, location[Len(location)])]
        ELSE created_resources[s]

\* create_user, create_client, create_group
CreateWithLocation(s, op, name, t) ==
    \E tr \in TokenAnswers(s), r \in CreateResponses :
        /\ Running(s)
        /\ UNCHANGED phase
        /\ LET tk == EnsureValidToken(s, tr)
               sv == Created(s, t, r)
           IN  Finish(s, op, tk, <<Req(s, "POST", name, NoId, r.status_code, {})>>,
                      TrackFromLocation(s, t, r), sv.made, sv.confirmed)

create_user(s) == CreateWithLocation(s, "create_user", "create/user", "users")

create_client(s) == CreateWithLocation(s, "create_client", "create/client", "clients")

create_group(s) == CreateWithLocation(s, "create_group", "create/group", "groups")

\* Variant: the role name is tracked without a test of the status.
TrackRoleNameAnyStatus(s, role_name, r) ==
    [created_resources[s] EXCEPT !["roles"] = Append(@, role_name)]

\* The tracked lists after create_realm_role was answered r.
TrackRoleName(s, role_name, r) ==
    IF r.status_code = 201
    THEN [created_resources[s] EXCEPT !["roles"] = Append(@, role_name)]
    ELSE created_resources[s]

\* create_realm_role: the tracked identifier is the name the session sent.
create_realm_role(s) ==
    \E tr \in TokenAnswers(s), r \in CreateResponses :
        /\ Running(s)
        /\ UNCHANGED phase
        /\ LET tk == EnsureValidToken(s, tr)
               sv == Created(s, "roles", r)
               role_name == Id(s, "roles", made[s]["roles"] + 1)
           IN  Finish(s, "create_realm_role", tk,
                      <<Req(s, "POST", "create/realm_role", NoId, r.status_code, {})>>,
                      TrackRoleName(s, role_name, r), sv.made, sv.confirmed)

\* A task that sends one request and looks at nothing of the answer.
OneRequest(s, op, method, name, id) ==
    \E tr \in TokenAnswers(s), status_code \in IgnoredStatuses :
        /\ Running(s)
        /\ UNCHANGED phase
        /\ LET tk == EnsureValidToken(s, tr)
           IN  Finish(s, op, tk, <<Req(s, method, name, id, status_code, {})>>,
                      created_resources[s], made[s], confirmed[s])

create_client_scope(s) ==
    OneRequest(s, "create_client_scope", "POST", "create/client_scope", NoId)

read_users(s) == OneRequest(s, "read_users", "GET", "read/users", NoId)

read_clients(s) == OneRequest(s, "read_clients", "GET", "read/clients", NoId)

read_realm_roles(s) == OneRequest(s, "read_realm_roles", "GET", "read/realm_roles", NoId)

read_groups(s) == OneRequest(s, "read_groups", "GET", "read/groups", NoId)

read_realm_info(s) == OneRequest(s, "read_realm_info", "GET", "read/realm_info", NoId)

update_realm_settings(s) ==
    OneRequest(s, "update_realm_settings", "PUT", "update/realm_settings",
               test_realm_name(s))

\* A task that did nothing but ensure_valid_token.
Skip(s, op, tk) ==
    Finish(s, op, tk, <<>>, created_resources[s], made[s], confirmed[s])

\* update_user, update_client: a PUT of the changed fields to a random
\* tracked identifier.
UpdateDirect(s, op, name, t, keys) ==
    \E tr \in TokenAnswers(s) :
        /\ Running(s)
        /\ UNCHANGED phase
        /\ LET tk == EnsureValidToken(s, tr)
           IN  IF created_resources[s][t] /= <<>>
               THEN \E id \in Elems(created_resources[s][t]),
                       status_code \in IgnoredStatuses :
                        Finish(s, op, tk, <<Req(s, "PUT", name, id, status_code, keys)>>,
                               created_resources[s], made[s], confirmed[s])
               ELSE Skip(s, op, tk)

update_user(s) ==
    UpdateDirect(s, "update_user", "update/user", "users", {"firstName", "attributes"})

update_client(s) ==
    UpdateDirect(s, "update_client", "update/client", "clients",
                 {"description", "attributes"})

\* Variant: the PUT carries only the changed keys, not the document read.
MergedBodyChangedOnly(current, changed) == changed

\* The document PUT back: the one read, with the changed keys assigned.
MergedBody(current, changed) == current \cup changed

\* update_realm_role, update_group: GET the current document of a random
\* tracked identifier and, on a 200, PUT it back with the changed keys.
UpdateMerged(s, op, get_name, put_name, t, changed) ==
    \E tr \in TokenAnswers(s) :
        /\ Running(s)
        /\ UNCHANGED phase
        /\ LET tk == EnsureValidToken(s, tr)
           IN  IF created_resources[s][t] /= <<>>
               THEN \E id \in Elems(created_resources[s][t]),
                       get_status \in GetStatuses :
                        IF get_status = 200
                        THEN \E current \in Representations,
                                put_status \in IgnoredStatuses :
                                 Finish(s, op, tk,
                                        <<Req(s, "GET", get_name, id, get_status, current),
                                          Req(s, "PUT", put_name, id, put_status,
                                              MergedBody(current, changed))>>,
                                        created_resources[s], made[s], confirmed[s])
                        ELSE Finish(s, op, tk,
                                    <<Req(s, "GET", get_name, id, get_status, {})>>,
                                    created_resources[s], made[s], confirmed[s])
               ELSE Skip(s, op, tk)

update_realm_role(s) ==
    UpdateMerged(s, "update_realm_role", "get/realm_role_for_update",
                 "update/realm_role", "roles", {"description"})

update_group(s) ==
    UpdateMerged(s, "update_group", "get/group_for_update", "update/group",
                 "groups", {"attributes"})

\* Variant: the guard written as "not empty" instead of "more than one".
MayPopNonEmpty(tracked) == Len(tracked) > 0

\* The guard of the four tracked deletes.
MayPop(tracked) == Len(tracked) > 1

\* delete_user, delete_client, delete_realm_role, delete_group: pop the
\* last tracked identifier, then DELETE it.
DeletePopped(s, op, name, t) ==
    \E tr \in TokenAnswers(s) :
        /\ Running(s)
        /\ UNCHANGED phase
        /\ LET tk == EnsureValidToken(s, tr)
               tracked == created_resources[s][t]
           IN  IF MayPop(tracked)
               THEN \E status_code \in DeleteStatuses :
                        Finish(s, op, tk,
                               <<Req(s, "DELETE", name, tracked[Len(tracked)],
                                     status_code, {})>>,
                               [created_resources[s] EXCEPT ![t] = Front(tracked)],
                               made[s], confirmed[s])
               ELSE Skip(s, op, tk)

delete_user(s) == DeletePopped(s, "delete_user", "delete/user", "users")

delete_client(s) == DeletePopped(s, "delete_client", "delete/client", "clients")

delete_realm_role(s) == DeletePopped(s, "delete_realm_role", "delete/realm_role", "roles")

delete_group(s) == DeletePopped(s, "delete_group", "delete/group", "groups")

\* delete_client_scope: list the realm's client scopes and DELETE a random
\* one of those whose name starts with "test-scope-".
delete_client_scope(s) ==
    \E tr \in TokenAnswers(s), status_code \in GetStatuses :
        /\ Running(s)
        /\ UNCHANGED phase
        /\ LET tk == EnsureValidToken(s, tr)
               get == Req(s, "GET", "get_scopes_for_delete", NoId, status_code, {})
               done(reqs) == Finish(s, "delete_client_scope", tk, reqs,
                                    created_resources[s], made[s], confirmed[s])
           IN  IF status_code = 200
               THEN \E scopes \in ScopeListings(s) :
                        LET test_scopes ==
                                SelectSeq(scopes,
                                          LAMBDA sc : sc.name_prefix = "test-scope-")
                        IN  IF test_scopes /= <<>>
                            THEN \E sc \in Elems(test_scopes),
                                    delete_status \in IgnoredStatuses :
                                     done(<<get, Req(s, "DELETE", "delete/client_scope",
                                                     sc.id, delete_status, {})>>)
                            ELSE done(<<get>>)
               ELSE done(<<get>>)

\* Time passes between the operations (wait_time and the requests' own
\* duration); a tick counts as a step of the run.
Tick ==
    /\ steps < MaxSteps
    /\ now' = now + TickSeconds
    /\ steps' = steps + 1
    /\ UNCHANGED <<phase, token_expires_at, auth, created_resources, made, issued,
                   confirmed, last, runnerVars, monitorVars, analysisVars>>

(***************************************************************************)
(* performance_monitor.py : PerformanceMonitor                             *)
(***************************************************************************)
MonDuration == 2    \* test_duration, in sampling intervals
MaxQueries == 2     \* how many of the prometheus queries a run asks
MaxRows == 10       \* largest sample table analyze_bottlenecks is given

Loops == {"system", "prometheus"}

\* The queries start_monitoring defines, in the order of the dictionary.
prometheus_queries ==
    <<"node_cpu_utilization", "node_memory_usage", "node_load1",
      "node_network_receive_bytes_rate", "node_network_transmit_bytes_rate",
      "container_cpu_usage", "container_memory_usage">>

\* The queries parameter of collect_prometheus_metrics.
Queries == SubSeq(prometheus_queries, 1, MaxQueries)

QueryNames == Elems(Queries)

\* What requests.get and the body it returns can be for one query: a
\* transport error, a status other than 200, a body whose status is not
\* "success", an empty result, a first result whose value float() rejects,
\* and a first result with a number.
PrometheusAnswers ==
    {[exc |-> TRUE, status_code |-> 0, status |-> "", result |-> <<>>],
     [exc |-> FALSE, status_code |-> 503, status |-> "", result |-> <<>>],
     [exc |-> FALSE, status_code |-> 200, status |-> "error", result |-> <<>>],
     [exc |-> FALSE, status_code |-> 200, status |-> "success", result |-> <<>>],
     [exc |-> FALSE, status_code |-> 200, status |-> "success",
      result |-> <<[parsable |-> FALSE, number |-> 0]>>],
     [exc |-> FALSE, status_code |-> 200, status |-> "success",
      result |-> <<[parsable |-> TRUE, number |-> 3]>>]}

\* The body of the try block for one query: the exception it raises, if
\* any, and otherwise the value it assigns.
TryQuery(a) ==
    IF a.exc THEN [raised |-> "RequestException", value |-> 0]
    ELSE IF a.status_code = 200
    THEN IF a.status = "success" /\ a.result /= <<>>
         THEN IF a.result[1].parsable
              THEN [raised |-> "", value |-> a.result[1].number]
              ELSE [raised |-> "ValueError", value |-> 0]
         ELSE [raised |-> "", value |-> 0]
    ELSE [raised |-> "", value |-> 0]

\* Variant: only the errors of the requests library are caught.
CaughtTransportOnly(exception) == exception = "RequestException"

\* except Exception
Caught(exception) == exception \in {"RequestException", "ValueError"}

\* metric_point[query_name] = value
SetValue(metric_point, query_name, value) ==
    [q \in DOMAIN metric_point \cup {query_name} |->
        IF q = query_name THEN value ELSE metric_point[q]]

\* The for loop over queries.items() from the k-th query on: the except
\* clause assigns 0; an exception it does not catch leaves the loop.
RECURSIVE QueryLoop(_, _, _, _)
QueryLoop(k, queries, metric_point, answers) ==
    IF k > Len(queries)
    THEN [raised |-> FALSE, metric_point |-> metric_point]
    ELSE LET out == TryQuery(answers[k])
         IN  IF out.raised = ""
             THEN QueryLoop(k + 1, queries,
                            SetValue(metric_point, queries[k], out.value), answers)
             ELSE IF Caught(out.raised)
             THEN QueryLoop(k + 1, queries,
                            SetValue(metric_point, queries[k], 0), answers)
             ELSE [raised |-> TRUE, metric_point |-> metric_point]

\* One row of collect_prometheus_metrics: the timestamp, then the queries.
MetricPoint(queries, timestamp, answers) ==
    QueryLoop(1, queries, [q \in {"timestamp"} |-> timestamp], answers)

\* The answers of one iteration as the loops' run draws them: every query
\* answered with a number, the first one failing, or all of them failing.
GoodAnswer ==
    [exc |-> FALSE, status_code |-> 200, status |-> "success",
     result |-> <<[parsable |-> TRUE, number |-> 3]>>]

AnswerProfiles ==
    {[k \in 1..Len(Queries) |->
         IF k <= fails THEN [exc |-> TRUE, status_code |-> 0, status |-> "",
                             result |-> <<>>]
         ELSE GoodAnswer] : fails \in {0, 1, Len(Queries)}}

\* Variant: the loop condition without the flag.
LoopConditionTimeOnly(elapsed) == elapsed < MonDuration

\* time.time() < end_time and self.monitoring_active
LoopCondition(elapsed) == elapsed < MonDuration /\ monitoring_active

\* Variant: both loops appending to one list.
AppendSystemShared(metric_point) ==
    [system |-> Append(sysl.metrics, metric_point),
     prometheus |-> Append(proml.all_metrics, metric_point)]

\* metrics.append(metric_point): the two tables after the system loop's append.
AppendSystem(metric_point) ==
    [system |-> Append(sysl.metrics, metric_point),
     prometheus |-> proml.all_metrics]

\* stop_monitoring has returned.
Stopped == mpc \in {"join", "done"}

Terminated(pc) == pc \in {"done", "aborted"}

\* The timers that run: main's sleep, and each loop's time.time() - start_time.
TimerRuns ==
    [main |-> mpc = "sleep",
     system |-> sysl.pc \in {"check", "body", "sleep"},
     prometheus |-> proml.pc \in {"check", "body", "sleep"}]

\* What a loop did after stop_monitoring returned.
Observe(l, what) == IF Stopped THEN [obs EXCEPT ![what][l] = @ + 1] ELSE obs

\* main: monitor.start_monitoring(duration), which sets the flag and starts
\* the two threads.
start_monitoring ==
    /\ mpc = "start"
    /\ monitoring_active' = TRUE
    /\ sysl' = [sysl EXCEPT !.pc = "init"]
    /\ proml' = [proml EXCEPT !.pc = "init"]
    /\ mpc' = "sleep"
    /\ UNCHANGED <<timers, metrics_queue, obs, analysisVars, runnerVars, sessionVars>>

\* main: time.sleep(duration) returns.
MainSleep ==
    /\ mpc = "sleep"
    /\ timers.main >= MonDuration
    /\ mpc' = "stop"
    /\ UNCHANGED <<monitoring_active, timers, sysl, metrics_queue, proml, obs,
                   analysisVars, runnerVars, sessionVars>>

\* main: monitor.stop_monitoring()
stop_monitoring ==
    /\ mpc = "stop"
    /\ monitoring_active' = FALSE
    /\ mpc' = "join"
    /\ UNCHANGED <<timers, sysl, metrics_queue, proml, obs, analysisVars,
                   runnerVars, sessionVars>>

\* main: system_thread.join(); prometheus_thread.join()
MainJoin ==
    /\ mpc = "join"
    /\ Terminated(sysl.pc)
    /\ Terminated(proml.pc)
    /\ mpc' = "done"
    /\ UNCHANGED <<monitoring_active, timers, sysl, metrics_queue, proml, obs,
                   analysisVars, runnerVars, sessionVars>>

\* collect_system_metrics: metrics = [], start_time, end_time
SystemEnter ==
    /\ sysl.pc = "init"
    /\ sysl' = [sysl EXCEPT !.pc = "check", !.metrics = <<>>]
    /\ timers' = [timers EXCEPT !.system = 0]
    /\ UNCHANGED <<monitoring_active, mpc, metrics_queue, proml, obs, analysisVars,
                   runnerVars, sessionVars>>

\* collect_system_metrics: the while test; when it fails the table is
\* returned and bound to self.system_metrics.
SystemCheck ==
    /\ sysl.pc = "check"
    /\ IF LoopCondition(timers.system)
       THEN /\ sysl' = [sysl EXCEPT !.pc = "body", !.timestamp = timers.system]
            /\ obs' = Observe("system", "passed")
       ELSE /\ sysl' = [sysl EXCEPT !.pc = "done"]
            /\ obs' = obs
    /\ UNCHANGED <<monitoring_active, mpc, timers, metrics_queue, proml, analysisVars,
                   runnerVars, sessionVars>>

\* collect_system_metrics: the sample is taken, appended and queued; the
\* loop goes to sleep.
SystemSample ==
    /\ sysl.pc = "body"
    /\ LET metric_point == [timestamp |-> sysl.timestamp]
           tables == AppendSystem(metric_point)
       IN  /\ sysl' = [sysl EXCEPT !.pc = "sleep", !.metrics = tables.system]
           /\ proml' = [proml EXCEPT !.all_metrics = tables.prometheus]
           /\ metrics_queue' = Append(metrics_queue, metric_point)
    /\ obs' = Observe("system", "appended")
    /\ UNCHANGED <<monitoring_active, mpc, timers, analysisVars, runnerVars, sessionVars>>

\* collect_prometheus_metrics: all_metrics = [], start_time, end_time
PrometheusEnter ==
    /\ proml.pc = "init"
    /\ proml' = [proml EXCEPT !.pc = "check", !.all_metrics = <<>>]
    /\ timers' = [timers EXCEPT !.prometheus = 0]
    /\ UNCHANGED <<monitoring_active, mpc, sysl, metrics_queue, obs, analysisVars,
                   runnerVars, sessionVars>>

\* collect_prometheus_metrics: the while test; when it fails the table is
\* returned and bound to self.prometheus_metrics.
PrometheusCheck ==
    /\ proml.pc = "check"
    /\ IF LoopCondition(timers.prometheus)
       THEN /\ proml' = [proml EXCEPT !.pc = "body", !.timestamp = timers.prometheus]
            /\ obs' = Observe("prometheus", "passed")
       ELSE /\ proml' = [proml EXCEPT !.pc = "done"]
            /\ obs' = obs
    /\ UNCHANGED <<monitoring_active, mpc, timers, sysl, metrics_queue, analysisVars,
                   runnerVars, sessionVars>>

\* collect_prometheus_metrics: the row is built query by query and
\* appended; the loop goes to sleep. An exception that leaves the for loop
\* ends the thread.
PrometheusSample ==
    \E answers \in AnswerProfiles :
        /\ proml.pc = "body"
        /\ LET row == MetricPoint(Queries, proml.timestamp, answers)
           IN  IF row.raised
               THEN /\ proml' = [proml EXCEPT !.pc = "aborted"]
                    /\ obs' = obs
               ELSE /\ proml' = [proml EXCEPT !.pc = "sleep",
                                              !.all_metrics = Append(@, row.metric_point)]
                    /\ obs' = Observe("prometheus", "appended")
        /\ UNCHANGED <<monitoring_active, mpc, timers, sysl, metrics_queue, analysisVars,
                       runnerVars, sessionVars>>

\* One sampling interval passes: the running timers advance and the loops
\* that sleep wake up.
MonitorTick ==
    /\ \/ \E l \in DOMAIN timers : TimerRuns[l] /\ timers[l] < MonDuration
       \/ sysl.pc = "sleep"
       \/ proml.pc = "sleep"
    /\ timers' = [l \in DOMAIN timers |->
                     IF TimerRuns[l] /\ timers[l] < MonDuration
                     THEN timers[l] + 1 ELSE timers[l]]
    /\ sysl' = IF sysl.pc = "sleep" THEN [sysl EXCEPT !.pc = "check"] ELSE sysl
    /\ proml' = IF proml.pc = "sleep" THEN [proml EXCEPT !.pc = "check"] ELSE proml
    /\ UNCHANGED <<monitoring_active, mpc, metrics_queue, obs, analysisVars,
                   runnerVars, sessionVars>>

MonitorInit ==
    /\ monitoring_active = FALSE
    /\ mpc = "start"
    /\ timers = [main |-> 0, system |-> 0, prometheus |-> 0]
    /\ sysl = [pc |-> "idle", timestamp |-> 0, metrics |-> <<>>]
    /\ metrics_queue = <<>>
    /\ proml = [pc |-> "idle", timestamp |-> 0, all_metrics |-> <<>>]
    /\ obs = [passed |-> [l \in Loops |-> 0], appended |-> [l \in Loops |-> 0]]

MainStep == start_monitoring \/ MainSleep \/ stop_monitoring \/ MainJoin

SystemStep == SystemEnter \/ SystemCheck \/ SystemSample

PrometheusStep == PrometheusEnter \/ PrometheusCheck \/ PrometheusSample

MonitorNext == MainStep \/ SystemStep \/ PrometheusStep \/ MonitorTick

(***************************************************************************)
(* performance_monitor.py : analyze_bottlenecks                            *)
(***************************************************************************)
high_cpu_threshold == 80
high_memory_threshold == 85
HighRateMb == 100

BytesPerMb == 1024 * 1024

\* A table of n samples as collect_system_metrics builds them, with the
\* columns analyze_bottlenecks reads: the first `high` samples have a CPU
\* usage of 90 and the others of low_cpu; the last sample alone may be above
\* the memory threshold and the first alone above the load threshold; the
\* disk and network counters grow by a fixed number of MB per sample.
SampleTable(n, high, low_cpu, memory_high, load_high, read_mb, write_mb, recv_mb) ==
    [i \in 1..n |->
        [cpu_percent |-> IF i <= high THEN 90 ELSE low_cpu,
         memory_percent |-> IF memory_high /\ i = n THEN 90 ELSE high_memory_threshold,
         cpu_count |-> 2,
         load_1min |-> IF load_high /\ i = 1 THEN 4 ELSE 3,
         disk_read_bytes |-> i * read_mb * BytesPerMb,
         disk_write_bytes |-> i * write_mb * BytesPerMb,
         net_bytes_sent |-> i * 60 * BytesPerMb,
         net_bytes_recv |-> i * recv_mb * BytesPerMb]]

\* (system_df[column] > threshold).sum()
CountAbove(system_df, column, threshold) ==
    Cardinality({i \in 1..Len(system_df) : system_df[i][column] > threshold})

\* system_df[column].diff().mean() as a fraction: the differences of
\* consecutive rows add up to last - first, and there are n - 1 of them;
\* with fewer than two rows the mean is NaN.
DiffMean(system_df, column) ==
    LET n == Len(system_df)
    IN  IF n < 2 THEN [nan |-> TRUE, num |-> 0, den |-> 1]
        ELSE [nan |-> FALSE, num |-> system_df[n][column] - system_df[1][column],
              den |-> n - 1]

\* mean / (1024*1024) > 100 for a sum of means over the same rows; a
\* comparison with NaN is false.
RateAboveThreshold(means) ==
    /\ \A i \in 1..Len(means) : ~means[i].nan
    /\ LET total == IF Len(means) = 1 THEN means[1].num ELSE means[1].num + means[2].num
       IN  total > HighRateMb * BytesPerMb * means[1].den

\* Variant: the CPU test written with >=.
HighCpuAtLeast(cpu_high_time, rows) == 10 * cpu_high_time >= rows

\* cpu_high_time > len(system_df) * 0.1; for integers the floating-point
\* test holds exactly when 10 * cpu_high_time > len(system_df).
HighCpu(cpu_high_time, rows) == 10 * cpu_high_time > rows

\* analyze_bottlenecks: the findings in the order they are appended, each
\* named by its prefix. A table without rows has no columns, and reading
\* the first column raises.
AnalyzeBottlenecks(system_df) ==
    IF Len(system_df) = 0
    THEN [raised |-> TRUE, bottlenecks |-> <<>>]
    ELSE LET cpu_high_time == CountAbove(system_df, "cpu_percent", high_cpu_threshold)
             memory_high_time ==
                 CountAbove(system_df, "memory_percent", high_memory_threshold)
             cpu_count == system_df[1].cpu_count
             high_load_time ==
                 Cardinality({i \in 1..Len(system_df) :
                                 2 * system_df[i].load_1min > 3 * cpu_count})
             disk_read_rate == DiffMean(system_df, "disk_read_bytes")
             disk_write_rate == DiffMean(system_df, "disk_write_bytes")
             net_sent == DiffMean(system_df, "net_bytes_sent")
             net_recv == DiffMean(system_df, "net_bytes_recv")
         IN  [raised |-> FALSE,
              bottlenecks |->
                  (IF HighCpu(cpu_high_time, Len(system_df)) THEN <<"CPU">> ELSE <<>>)
                  \o (IF memory_high_time > 0 THEN <<"Memory">> ELSE <<>>)
                  \o (IF high_load_time > 0 THEN <<"Load">> ELSE <<>>)
                  \o (IF \/ RateAboveThreshold(<<disk_read_rate>>)
                         \/ RateAboveThreshold(<<disk_write_rate>>)
                      THEN <<"Disk I/O">> ELSE <<>>)
                  \o (IF RateAboveThreshold(<<net_sent, net_recv>>)
                      THEN <<"Network">> ELSE <<>>)]

NoCall == [op |-> "none", input |-> <<>>, res |-> <<>>]

\* analyze_bottlenecks applied to a sample table.
CallAnalyzeBottlenecks ==
    \E n \in 0..MaxRows, low_cpu \in {50, high_cpu_threshold},
       memory_high \in BOOLEAN, load_high \in BOOLEAN,
       read_mb \in {HighRateMb, 150}, write_mb \in {HighRateMb, 150},
       recv_mb \in {40, 60} :
        \E high \in 0..n :
            LET system_df == SampleTable(n, high, low_cpu, memory_high, load_high,
                                         read_mb, write_mb, recv_mb)
            IN  /\ acall = NoCall
                /\ acall' = [op |-> "analyze_bottlenecks", input |-> system_df,
                             res |-> AnalyzeBottlenecks(system_df)]
                /\ UNCHANGED <<runnerVars, sessionVars, monitorVars>>

\* One row of collect_prometheus_metrics built from the answers to its
\* queries.
CallMetricPoint ==
    \E answers \in [1..Len(Queries) -> PrometheusAnswers] :
        /\ acall = NoCall
        /\ acall' = [op |-> "collect_prometheus_metrics", input |-> answers,
                     res |-> MetricPoint(Queries, 0, answers)]
        /\ UNCHANGED <<runnerVars, sessionVars, monitorVars>>

AnalysisInit == acall = NoCall

AnalysisNext == CallAnalyzeBottlenecks \/ CallMetricPoint

SessionInit ==
    /\ now = TickSeconds
    /\ phase = [s \in Sessions |-> "new"]
    /\ token_expires_at = [s \in Sessions |-> 0]
    /\ auth = [s \in Sessions |-> 0]
    /\ created_resources = [s \in Sessions |-> NoTracked]
    /\ made = [s \in Sessions |-> [t \in TrackedTypes |-> 0]]
    /\ issued = [s \in Sessions |-> 0]
    /\ confirmed = [s \in Sessions |-> [t \in ResourceTypes |-> {}]]
    /\ last = [s |-> "", op |-> "none", reqs |-> <<>>,
               before |-> [s \in Sessions |-> NoTracked],
               expires_before |-> 0, auth_before |-> 0, token_answer |-> NoAnswer,
               now |-> 0]
    /\ steps = 0

RunnerInit ==
    /\ attrs = InitAttrs
    /\ rcall = Call("none", NoInput, Result(FALSE, FALSE, <<>>))

Init == RunnerInit /\ SessionInit /\ MonitorInit /\ AnalysisInit

RunnerNext ==
    \/ CallRunScenario
    \/ CallWaitForKeycloak
    \/ CallStartMonitoring
    \/ CallRunAllScenarios

RunnerSpec == Init /\ [][RunnerNext]_vars

SessionNext ==
    \/ Tick
    \/ \E s \in Sessions :
        \/ on_start(s)
        \/ on_stop(s)
        \/ create_user(s)
        \/ create_client(s)
        \/ create_realm_role(s)
        \/ create_group(s)
        \/ create_client_scope(s)
        \/ read_users(s)
        \/ read_clients(s)
        \/ read_realm_roles(s)
        \/ read_groups(s)
        \/ read_realm_info(s)
        \/ update_user(s)
        \/ update_client(s)
        \/ update_realm_role(s)
        \/ update_group(s)
        \/ update_realm_settings(s)
        \/ delete_user(s)
        \/ delete_client(s)
        \/ delete_realm_role(s)
        \/ delete_group(s)
        \/ delete_client_scope(s)

SessionSpec == Init /\ [][SessionNext]_vars

\* The threads are scheduled by the operating system and time passes: each
\* thread that can take a step eventually takes one.
MonitorSpec ==
    /\ Init
    /\ [][MonitorNext]_vars
    /\ WF_vars(MainStep)
    /\ WF_vars(SystemStep)
    /\ WF_vars(PrometheusStep)
    /\ WF_vars(MonitorTick)

AnalysisSpec == Init /\ [][AnalysisNext]_vars

(***************************************************************************)
(* Properties of the runner                                                *)
(***************************************************************************)
IsReady(r) == ~r.exc /\ r.status_code = 200

Succeeded(o) == o.launched /\ o.returncode = 0

\* The first attempt answered 200 among the first max_attempts, or 0.
FirstReady(resp, max_attempts) ==
    LET ok == {i \in 1..max_attempts : IsReady(resp[i])}
    IN  IF ok = {} THEN 0 ELSE CHOOSE i \in ok : \A j \in ok : i <= j

IsScenarioLaunch(ev) ==
    ev.e \in {"launch", "launch_failed"} /\ ev.name \in ScenarioNames

\* C1: run_scenario on a fresh runner returns true exactly when the
\* subprocess exit status was zero, whatever the subprocess does (exit 0,
\* non-zero exit, launch failure), and never raises to its caller.
C1_RunScenarioReturnsExitStatus ==
    rcall.op = "run_scenario" =>
        /\ ~rcall.res.raised
        /\ rcall.res.ret = Succeeded(rcall.input.outcomes[1])

\* C2: wait_for_keycloak(max_attempts) returns true after exactly N+1
\* requests when the first N answers are not 200 (or are errors) and answer
\* N+1 is 200, N+1 <= max_attempts; when all max_attempts requests fail it
\* returns false after exactly max_attempts requests; it never raises.
C2_ReadinessPoll ==
    rcall.op = "wait_for_keycloak" =>
        LET n == FirstReady(rcall.input.resp, rcall.input.max_attempts)
            requests == CountEvents(rcall.res.events, "health_get")
        IN  /\ ~rcall.res.raised
            /\ n > 0 => rcall.res.ret /\ requests = n
            /\ n = 0 => ~rcall.res.ret /\ requests = rcall.input.max_attempts

C2_Witness ==
    /\ rcall.op = "wait_for_keycloak"
    /\ FirstReady(rcall.input.resp, rcall.input.max_attempts) = 3
    /\ rcall.input.resp[1].exc
    /\ rcall.input.resp[2].status_code = 503
    /\ rcall.res.ret
    /\ CountEvents(rcall.res.events, "health_get") = 3

\* C3: run_all_scenarios starts the sidecars first and then polls for
\* readiness; when the target never becomes ready within the retry budget
\* no scenario subprocess is launched and the call returns false.
C3_AbortWhenNeverReady ==
    (/\ rcall.op = "run_all_scenarios"
     /\ FirstReady(rcall.input.resp, DefaultMaxAttempts) = 0) =>
        LET ev == rcall.res.events
        IN  /\ ~rcall.res.raised
            /\ rcall.res.ret = FALSE
            /\ \A i \in 1..Len(ev) : ~IsScenarioLaunch(ev[i])
            /\ Len(ev) > 0 /\ ev[1].name = "docker-compose"
            /\ CountEvents(ev, "health_get") = DefaultMaxAttempts

\* C4: when the target is ready, run_all_scenarios runs every configured
\* scenario exactly once, in the declared order, one after the other (each
\* launch comes right after its cool-down sleep and is followed by its own
\* exit before anything else), also after a failed scenario.
C4_AllScenariosInOrder ==
    (/\ rcall.op = "run_all_scenarios"
     /\ FirstReady(rcall.input.resp, DefaultMaxAttempts) > 0) =>
        LET ev == rcall.res.events
            runs == SelectSeq(ev, IsScenarioLaunch)
        IN  /\ ~rcall.res.raised
            /\ [i \in 1..Len(runs) |-> runs[i].name] = ScenarioOrder
            /\ \A i \in 1..Len(ev) : IsScenarioLaunch(ev[i]) =>
                   /\ i > 1
                   /\ ev[i - 1] = Ev("sleep", ev[i].name, CoolDown)
                   /\ ev[i].e = "launch" =>
                          /\ i < Len(ev)
                          /\ ev[i + 1].e = "exit"
                          /\ ev[i + 1].name = ev[i].name

\* C5: run_all_scenarios returns true if and only if every configured
\* scenario's run_scenario call returned success, and false when a scenario
\* failed or the target was never ready.
C5_OverallResult ==
    rcall.op = "run_all_scenarios" =>
        /\ ~rcall.res.raised
        /\ rcall.res.ret =
               (/\ FirstReady(rcall.input.resp, DefaultMaxAttempts) > 0
                /\ \A n \in ScenarioNames : Succeeded(rcall.input.outcomes[n]))

(***************************************************************************)
(* Properties of a session                                                 *)
(***************************************************************************)
TrackedDeletes == {"delete_user", "delete_client", "delete_realm_role", "delete_group"}

TrackedUpdates == {"update_user", "update_client", "update_realm_role", "update_group"}

Tasks ==
    {"create_user", "create_client", "create_realm_role", "create_group",
     "create_client_scope", "read_users", "read_clients", "read_realm_roles",
     "read_groups", "read_realm_info", "update_realm_settings",
     "delete_client_scope"} \cup TrackedUpdates \cup TrackedDeletes

\* The tracked list an update or delete task works on.
TypeOf(op) ==
    CASE op \in {"update_user", "delete_user"} -> "users"
      [] op \in {"update_client", "delete_client"} -> "clients"
      [] op \in {"update_realm_role", "delete_realm_role"} -> "roles"
      [] op \in {"update_group", "delete_group"} -> "groups"

IsTokenRequest(r) == r.name = "auth/get_admin_token"

Requests(method) == SelectSeq(last.reqs, LAMBDA r : r.method = method)

\* The requests of the last operation that change or remove a resource.
Mutations == SelectSeq(last.reqs, LAMBDA r : r.method \in {"PUT", "DELETE"})

AllTracked(s, lists) == UNION {Elems(lists[s][t]) : t \in ResourceTypes}

\* C6: a tracked delete removes exactly the most recently appended
\* identifier, and sends one DELETE for it, when the list holds at least 2
\* identifiers; otherwise it changes no list and sends no DELETE. No
\* operation of the session empties a tracked list that was not empty.
C6_DeleteKeepsOne ==
    /\ last.op \in TrackedDeletes =>
           LET t == TypeOf(last.op)
               before == last.before[last.s][t]
               dels == Requests("DELETE")
           IN  IF Len(before) >= 2
               THEN /\ created_resources[last.s] =
                           [last.before[last.s] EXCEPT ![t] = Front(before)]
                    /\ Len(dels) = 1
                    /\ dels[1].id = before[Len(before)]
               ELSE /\ created_resources[last.s] = last.before[last.s]
                    /\ dels = <<>>
    /\ \A s \in Sessions, t \in TrackedTypes :
           last.before[s][t] /= <<>> => created_resources[s][t] /= <<>>

C6_Witness ==
    /\ last.op = "delete_realm_role"
    /\ Len(last.before[last.s]["roles"]) = 2
    /\ Len(created_resources[last.s]["roles"]) = 1
    /\ Len(Requests("DELETE")) = 1

\* C7: every identifier in a session's tracked lists (users, clients,
\* roles, groups, realms) names a resource whose create request in this
\* session was answered 201; a list grows only in an operation whose create
\* request was answered 201, and never by an identifier the answer did not
\* carry.
C7_TrackedWereConfirmed ==
    /\ \A s \in Sessions, t \in ResourceTypes :
           Elems(created_resources[s][t]) \subseteq confirmed[s][t]
    /\ \A t \in ResourceTypes :
           (/\ last.op /= "none"
            /\ Len(created_resources[last.s][t]) > Len(last.before[last.s][t])) =>
               \E i \in 1..Len(last.reqs) :
                   /\ last.reqs[i].method = "POST"
                   /\ ~IsTokenRequest(last.reqs[i])
                   /\ last.reqs[i].status_code = 201

C7_Witness ==
    /\ last.op = "create_group"
    /\ Len(created_resources[last.s]["groups"]) = 1
    /\ Len(created_resources[last.s]["realms"]) = 1
    /\ confirmed[last.s]["users"] /= {}
    /\ created_resources[last.s]["users"] = <<>>

\* C8 as claimed: every update and delete request of a session carries an
\* identifier that was in the session's tracked lists when the operation
\* started, and no operation changes another session's tracked lists.
C8_TargetsTracked ==
    /\ \A i \in 1..Len(Mutations) :
           Mutations[i].id \in AllTracked(last.s, last.before)
    /\ \A u \in Sessions \ {last.s} : created_resources[u] = last.before[u]

\* C8 as amended: an update or delete of a user, client, role or group
\* carries an identifier that was in the session's tracked list of that
\* type when the operation started; update_realm_settings and the cleanup
\* address the session's own realm by name, tracked or not;
\* delete_client_scope carries an identifier from the listing of the
\* session's own realm; every request goes to the session's own realm and
\* no operation changes another session's tracked lists.
C8_TargetsOwn ==
    /\ \A i \in 1..Len(Mutations) :
           LET r == Mutations[i]
           IN  /\ r.realm = test_realm_name(last.s)
               /\ CASE last.op \in TrackedUpdates \cup TrackedDeletes ->
                           r.id \in Elems(last.before[last.s][TypeOf(last.op)])
                    [] last.op \in {"update_realm_settings", "on_stop"} ->
                           r.id = test_realm_name(last.s)
                    [] last.op = "delete_client_scope" ->
                           /\ r.id \in UNION {{sc.id : sc \in Elems(listing)} :
                                              listing \in ScopeListings(last.s)}
                           /\ r.id.owner = last.s
                    [] OTHER -> FALSE
    /\ \A u \in Sessions \ {last.s} : created_resources[u] = last.before[u]

C8_Witness ==
    /\ last.op = "update_client"
    /\ Len(Mutations) = 1
    /\ \E u \in Sessions \ {last.s} : created_resources[u]["realms"] /= <<>>

\* C9: every PUT of a role or group comes right after a GET of the same
\* resource that was answered 200, and its body has every key of the
\* document that GET returned; a GET answered otherwise is followed by no PUT.
C9_GetBeforePut ==
    \A i \in 1..Len(last.reqs) :
        LET r == last.reqs[i]
        IN  /\ (r.method = "PUT" /\ r.name \in {"update/realm_role", "update/group"}) =>
                   /\ i > 1
                   /\ last.reqs[i - 1].method = "GET"
                   /\ last.reqs[i - 1].name =
                          (IF r.name = "update/group" THEN "get/group_for_update"
                           ELSE "get/realm_role_for_update")
                   /\ last.reqs[i - 1].id = r.id
                   /\ last.reqs[i - 1].status_code = 200
                   /\ last.reqs[i - 1].keys \subseteq r.keys
            /\ (/\ r.name \in {"get/realm_role_for_update", "get/group_for_update"}
                /\ r.status_code /= 200) => i = Len(last.reqs)

C9_Witness ==
    /\ last.op = "update_group"
    /\ Len(last.reqs) = 2
    /\ last.reqs[1].status_code = 200
    /\ "composite" \in last.reqs[2].keys
    /\ "attributes" \in last.reqs[2].keys \ last.reqs[1].keys

\* C10: a task that starts with the stored expiry at or before the current
\* time sends exactly one token request, before any admin request; a task
\* that starts with the expiry still ahead sends none.
C10_TokenRefresh ==
    last.op \in Tasks =>
        LET token_requests == SelectSeq(last.reqs, IsTokenRequest)
        IN  IF last.now >= last.expires_before
            THEN Len(token_requests) = 1 /\ IsTokenRequest(last.reqs[1])
            ELSE token_requests = <<>>

C10_Witness ==
    /\ last.op = "read_users"
    /\ last.expires_before > 0
    /\ last.now >= last.expires_before
    /\ Len(last.reqs) = 2
    /\ IsTokenRequest(last.reqs[1])
    /\ last.reqs[2].name = "read/users"

\* The token part of an operation that starts with ensure_valid_token: one
\* token request, first, when the stored expiry has passed; none otherwise.
RefreshedIfExpired ==
    LET token_requests == SelectSeq(last.reqs, IsTokenRequest)
    IN  /\ IF last.now >= last.expires_before
           THEN Len(token_requests) = 1 /\ IsTokenRequest(last.reqs[1])
           ELSE token_requests = <<>>
        /\ \A i \in 2..Len(last.reqs) : ~IsTokenRequest(last.reqs[i])

IsRealmDelete(r) ==
    r.method = "DELETE" /\ r.id = test_realm_name(last.s) /\ r.realm = test_realm_name(last.s)

\* C11 as claimed: on_stop, whatever happened during on_start and the
\* tasks, first refreshes the token if its expiry has passed and then
\* sends a DELETE for the session's test realm.
C11_CleanupAlwaysDeletes ==
    last.op = "on_stop" =>
        /\ RefreshedIfExpired
        /\ last.reqs /= <<>>
        /\ IsRealmDelete(last.reqs[Len(last.reqs)])

\* C11 as amended: on_stop first refreshes the token if its expiry has
\* passed; it then sends one DELETE for the session's test realm, as its
\* last request, if and only if the realm is tracked (its creation in
\* on_start was answered 201), and sends nothing else.
C11_CleanupDeletesTrackedRealm ==
    last.op = "on_stop" =>
        LET dels == Requests("DELETE")
        IN  /\ RefreshedIfExpired
            /\ IF test_realm_name(last.s) \in Elems(last.before[last.s]["realms"])
               THEN /\ Len(dels) = 1
                    /\ IsRealmDelete(last.reqs[Len(last.reqs)])
               ELSE dels = <<>>
            /\ Len(last.reqs) = Len(SelectSeq(last.reqs, IsTokenRequest)) + Len(dels)

C11_Witness ==
    /\ last.op = "on_stop"
    /\ last.now >= last.expires_before
    /\ last.expires_before > 0
    /\ Len(last.reqs) = 2
    /\ IsTokenRequest(last.reqs[1])
    /\ IsRealmDelete(last.reqs[2])

Failed(r) == ~IsTokenRequest(r) /\ (r.status_code < 200 \/ r.status_code > 299)

\* The last operation sent a request of its own that was answered non-2xx.
SomeRequestFailed ==
    last.op /= "none" /\ \E i \in 1..Len(last.reqs) : Failed(last.reqs[i])

\* C17 as claimed: for every session operation, a non-2xx answer to the
\* operation's request leaves all of the session's tracked lists exactly as
\* they were when the operation started.
C17_FailureLeavesLists ==
    SomeRequestFailed => created_resources[last.s] = last.before[last.s]

\* The operations that assign to a tracked list at all.
ListWriters ==
    {"on_start", "create_user", "create_client", "create_realm_role", "create_group"}
        \cup TrackedDeletes

\* C17 as amended: a non-2xx answer to the request of an operation other
\* than the four tracked deletes leaves the session's tracked lists as
\* they were; a tracked delete has popped the identifier before it sends
\* the DELETE, so its list is one shorter whatever the answer is. The
\* reads, the updates, create_client_scope, delete_client_scope and the
\* cleanup change no list, whatever they are answered.
C17_FailureSkipsUpdateExceptPop ==
    /\ SomeRequestFailed =>
           IF last.op \in TrackedDeletes
           THEN LET t == TypeOf(last.op)
                IN  created_resources[last.s] =
                        [last.before[last.s] EXCEPT ![t] = Front(@)]
           ELSE created_resources[last.s] = last.before[last.s]
    /\ (last.op /= "none" /\ last.op \notin ListWriters) =>
           created_resources[last.s] = last.before[last.s]

C17_Witness ==
    /\ last.op = "delete_realm_role"
    /\ Len(last.reqs) > 0
    /\ last.reqs[Len(last.reqs)].status_code = 404
    /\ Len(last.before[last.s]["roles"]) = 2
    /\ Len(created_resources[last.s]["roles"]) = 1

\* C18: a token fetch answered 200 sets the stored expiry to now + (declared
\* lifetime - 60) and the Authorization header to the token just issued; a
\* token fetch answered otherwise leaves the stored expiry and the header
\* as they were, and the operation goes on: on_start always fetches a
\* token and sends the realm creation after it, whatever the answer.
C18_TokenFetch ==
    /\ last.token_answer /= NoAnswer =>
           LET a == last.token_answer
           IN  /\ IsTokenRequest(last.reqs[1])
               /\ last.reqs[1].status_code = a.status_code
               /\ IF a.status_code = 200
                  THEN /\ token_expires_at[last.s] =
                              last.now + ((IF a.has_expires_in THEN a.expires_in
                                           ELSE DefaultLifetime) - TokenSlack)
                       /\ auth[last.s] = issued[last.s]
                       /\ auth[last.s] = last.auth_before + 1
                  ELSE /\ token_expires_at[last.s] = last.expires_before
                       /\ auth[last.s] = last.auth_before
    /\ last.op = "on_start" =>
           /\ last.token_answer /= NoAnswer
           /\ Len(last.reqs) = 2
           /\ last.reqs[2].name = "setup/create_test_realm"
           /\ last.reqs[2].method = "POST"

C18_Witness ==
    /\ last.op = "on_start"
    /\ last.token_answer.status_code = 401
    /\ auth[last.s] = 0
    /\ token_expires_at[last.s] = 0
    /\ last.reqs[2].name = "setup/create_test_realm"

(***************************************************************************)
(* Further properties of the runner                                        *)
(***************************************************************************)
\* The value that follows a flag in an argument list, or "" without it.
FlagValue(cmd, flag) ==
    LET at == {i \in 1..(Len(cmd) - 1) : cmd[i] = flag}
    IN  IF at = {} THEN "" ELSE cmd[(CHOOSE i \in at : \A j \in at : i <= j) + 1]

\* The flag values the profiles call for.
ProfileFlags ==
    [n \in ScenarioNames |->
        CASE n = "light_load"  -> <<"20", "2", "5m">>
          [] n = "medium_load" -> <<"100", "5", "10m">>
          [] n = "heavy_load"  -> <<"500", "10", "15m">>
          [] n = "stress_test" -> <<"2000", "20", "20m">>]

CarriesProfile(ev) ==
    /\ IsScenarioLaunch(ev)
    /\ <<FlagValue(ev.cmd, "--users"), FlagValue(ev.cmd, "--spawn-rate"),
          FlagValue(ev.cmd, "--run-time")>> = ProfileFlags[ev.name]

\* C15: for every configured scenario, run_scenario hands to subprocess.run
\* a command whose --users, --spawn-rate and --run-time values are the
\* profile's (light_load 20, 2, "5m"; medium_load 100, 5, "10m"; heavy_load
\* 500, 10, "15m"; stress_test 2000, 20, "20m").
C15_CommandCarriesProfile ==
    rcall.op = "run_scenario" =>
        /\ \E i \in 1..Len(rcall.res.events) :
               /\ rcall.res.events[i].name = rcall.input.name
               /\ CarriesProfile(rcall.res.events[i])
        /\ \A i \in 1..Len(rcall.res.events) :
               IsScenarioLaunch(rcall.res.events[i]) => CarriesProfile(rcall.res.events[i])

Is2xx(r) == ~r.exc /\ r.status_code \in 200..299

\* C16 as claimed: wait_for_keycloak takes any 2xx status as ready: it
\* returns true at the first attempt within the budget answered 2xx.
C16_Any2xxReady ==
    rcall.op = "wait_for_keycloak" =>
        LET ok == {i \in 1..rcall.input.max_attempts : Is2xx(rcall.input.resp[i])}
            requests == CountEvents(rcall.res.events, "health_get")
        IN  ok /= {} =>
                /\ rcall.res.ret
                /\ requests = CHOOSE i \in ok : \A j \in ok : i <= j

\* C16 as amended: wait_for_keycloak takes only status 200 as ready: the
\* attempt it returns true at was answered 200, and every attempt answered
\* otherwise (an error, a non-2xx status, or a 2xx status other than 200)
\* is followed by the sleep and, within the budget, by the next attempt.
C16_Only200Ready ==
    rcall.op = "wait_for_keycloak" =>
        LET resp == rcall.input.resp
            requests == CountEvents(rcall.res.events, "health_get")
            sleeps == CountEvents(rcall.res.events, "sleep")
        IN  /\ rcall.res.ret =>
                   /\ requests \in 1..rcall.input.max_attempts
                   /\ ~resp[requests].exc
                   /\ resp[requests].status_code = 200
            /\ \A i \in 1..requests :
                   ~IsReady(resp[i]) =>
                       /\ ~(rcall.res.ret /\ requests = i)
                       /\ requests > i \/ i = rcall.input.max_attempts
            /\ sleeps = Cardinality({i \in 1..requests : ~IsReady(resp[i])})

C16_Witness ==
    /\ rcall.op = "wait_for_keycloak"
    /\ rcall.input.max_attempts = 2
    /\ Is2xx(rcall.input.resp[1])
    /\ rcall.input.resp[1].status_code = 204
    /\ rcall.input.resp[2].status_code = 200
    /\ rcall.res.ret
    /\ CountEvents(rcall.res.events, "health_get") = 2

(***************************************************************************)
(* Properties of the collector                                             *)
(***************************************************************************)
BothLoopsExited == sysl.pc = "done" /\ proml.pc = "done"

\* C12: once start_monitoring has started the two loops, stop_monitoring
\* clears the flag and each loop exits at its next test of the loop
\* condition (no such test passes after stop_monitoring has returned), so
\* both loops end, after a stop or once the duration has elapsed, under
\* every interleaving of main and the loops.
C12_LoopsExitAfterStop ==
    /\ [](Stopped => ~monitoring_active)
    /\ [](\A l \in Loops : obs.passed[l] = 0)
    /\ <>[]BothLoopsExited

C12_Witness ==
    /\ mpc = "done"
    /\ BothLoopsExited
    /\ timers.system < MonDuration
    /\ timers.prometheus = MonDuration
    /\ sysl.metrics /= <<>>

QuerySucceeded(a) ==
    /\ ~a.exc
    /\ a.status_code = 200
    /\ a.status = "success"
    /\ a.result /= <<>>
    /\ a.result[1].parsable

\* C13: in collect_prometheus_metrics a failed query (transport error,
\* status other than 200, status field other than "success", empty result,
\* unparsable value) sets the query's value in the current row to 0 and
\* does not end the loop; the row holds a timestamp and exactly one value
\* for every query, the number answered when the query succeeded.
C13_FailedQueryIsZero ==
    acall.op = "collect_prometheus_metrics" =>
        LET row == acall.res.metric_point
        IN  /\ ~acall.res.raised
            /\ DOMAIN row = {"timestamp"} \cup QueryNames
            /\ \A k \in 1..Len(Queries) :
                   row[Queries[k]] =
                       (IF QuerySucceeded(acall.input[k])
                        THEN acall.input[k].result[1].number ELSE 0)

C13_Witness ==
    /\ acall.op = "collect_prometheus_metrics"
    /\ acall.input[1].result /= <<>>
    /\ ~acall.input[1].result[1].parsable
    /\ QuerySucceeded(acall.input[2])
    /\ acall.res.metric_point[Queries[1]] = 0
    /\ acall.res.metric_point[Queries[2]] = 3

\* C19: a step that appends to one loop's table leaves the other loop's
\* table as it was, the queue receives the system loop's rows only, and
\* after stop_monitoring has returned each loop appends at most one more
\* row to its table, under every interleaving of the loops and main.
C19_OwnTablesBoundedOvershoot ==
    /\ [](\A l \in Loops : obs.appended[l] <= 1)
    /\ [](metrics_queue = sysl.metrics \/ sysl.pc = "init")
    /\ [][/\ sysl'.metrics /= sysl.metrics => proml'.all_metrics = proml.all_metrics
          /\ proml'.all_metrics /= proml.all_metrics => sysl'.metrics = sysl.metrics
          /\ proml'.all_metrics /= proml.all_metrics => metrics_queue' = metrics_queue]_vars

C19_Witness ==
    /\ BothLoopsExited
    /\ obs.appended["system"] = 1
    /\ obs.appended["prometheus"] = 1
    /\ Len(sysl.metrics) = 2
    /\ Len(proml.all_metrics) = 2

\* Whether a finding of the given kind is among the findings returned.
Reported(kind) ==
    \E i \in 1..Len(acall.res.bottlenecks) : acall.res.bottlenecks[i] = kind

\* The rows of the analysed table that a test holds for.
RowsWhere(Test(_)) == {i \in 1..Len(acall.input) : Test(acall.input[i])}

\* Whether a counter's mean growth per sample, in bytes, is above 100 MB.
GrowthAbove(growth) ==
    /\ Len(acall.input) >= 2
    /\ growth > HighRateMb * BytesPerMb * (Len(acall.input) - 1)

Growth(column) == acall.input[Len(acall.input)][column] - acall.input[1][column]

\* C14: analyze_bottlenecks reports the CPU finding if and only if the
\* samples with cpu_percent strictly above 80 are strictly more than 10% of
\* all samples; each of the five checks contributes at most one finding,
\* and whether it does depends on its own columns only.
C14_CpuFindingAboveTenth ==
    acall.op = "analyze_bottlenecks" =>
        LET df == acall.input
            rows == Len(df)
            high == Cardinality(RowsWhere(LAMBDA r : r.cpu_percent > 80))
        IN  /\ Reported("CPU") <=> (10 * high > rows)
            /\ \A kind \in {"CPU", "Memory", "Load", "Disk I/O", "Network"} :
                   Cardinality({i \in 1..Len(acall.res.bottlenecks) :
                                   acall.res.bottlenecks[i] = kind}) <= 1
            /\ \A i \in 1..Len(acall.res.bottlenecks) :
                   acall.res.bottlenecks[i] \in
                       {"CPU", "Memory", "Load", "Disk I/O", "Network"}
            /\ rows > 0 =>
                   /\ Reported("Memory") <=>
                          RowsWhere(LAMBDA r : r.memory_percent > 85) /= {}
                   /\ Reported("Load") <=>
                          RowsWhere(LAMBDA r : 2 * r.load_1min > 3 * df[1].cpu_count) /= {}
                   /\ Reported("Disk I/O") <=>
                          \/ GrowthAbove(Growth("disk_read_bytes"))
                          \/ GrowthAbove(Growth("disk_write_bytes"))
                   /\ Reported("Network") <=>
                          GrowthAbove(Growth("net_bytes_sent") + Growth("net_bytes_recv"))

C14_Witness ==
    /\ acall.op = "analyze_bottlenecks"
    /\ Len(acall.input) = 10
    /\ Cardinality(RowsWhere(LAMBDA r : r.cpu_percent > 80)) = 1
    /\ Cardinality(RowsWhere(LAMBDA r : r.cpu_percent = 80)) = 9
    /\ ~Reported("CPU")
    /\ Reported("Memory")
    /\ Reported("Network")
    /\ ~Reported("Load")

====
